---- MODULE Spec2Model ----
(***************************************************************************)
(* Model of the jsot transport codec (src/lib.rs): encode / decode of a    *)
(* JSON value as  tag byte || base64( transform( JSON text ) ).            *)
(* Bytes are integers 0..255, byte strings are sequences of bytes.         *)
(***************************************************************************)
EXTENDS Integers, Sequences, FiniteSets, TLC

(* ------------------------------------------------------------------ *)
(* Bounds of the model                                                 *)
(* ------------------------------------------------------------------ *)
\* longest run of the digit 1 among the numbers given to encode
MaxOnes == 11
\* longest payload region of the hand-made decode inputs
MaxPayloadLen == 4
\* longest byte sequence appended to an encode output
MaxSuffixLen == 2

(* ------------------------------------------------------------------ *)
(* Byte literals used by the code and by the wire formats              *)
(* ------------------------------------------------------------------ *)
Ascii ==
  [ space |-> 32, quote |-> 34, amp |-> 38, plus |-> 43, comma |-> 44,
    minus |-> 45, slash |-> 47, d0 |-> 48, d1 |-> 49, d2 |-> 50, d3 |-> 51,
    d9 |-> 57, dot |-> 46, uE |-> 69, colon |-> 58, eq |-> 61, uA |-> 65, uM |-> 77, uQ |-> 81,
    uZ |-> 90, lbracket |-> 91, backslash |-> 92, rbracket |-> 93,
    underscore |-> 95, la |-> 97, lb |-> 98, le |-> 101, lf |-> 102,
    ll |-> 108, ln |-> 110, lr |-> 114, ls |-> 115, lt |-> 116, lu |-> 117,
    lz |-> 122, lbrace |-> 123, rbrace |-> 125, tab |-> 9, lf10 |-> 10,
    cr |-> 13 ]

(* ------------------------------------------------------------------ *)
(* base64 crate, BASE64_STANDARD engine                                *)
(* ------------------------------------------------------------------ *)
\* the symbol of a 6-bit value, standard alphabet
b64_symbol(v) ==
  IF v < 26 THEN Ascii.uA + v
  ELSE IF v < 52 THEN Ascii.la + (v - 26)
  ELSE IF v < 62 THEN Ascii.d0 + (v - 52)
  ELSE IF v = 62 THEN Ascii.plus
  ELSE Ascii.slash

\* the 6-bit value of a symbol, -1 when the byte is not in the alphabet
b64_value(c) ==
  IF c >= Ascii.uA /\ c <= Ascii.uZ THEN c - Ascii.uA
  ELSE IF c >= Ascii.la /\ c <= Ascii.lz THEN c - Ascii.la + 26
  ELSE IF c >= Ascii.d0 /\ c <= Ascii.d9 THEN c - Ascii.d0 + 52
  ELSE IF c = Ascii.plus THEN 62
  ELSE IF c = Ascii.slash THEN 63
  ELSE -1

RECURSIVE base64_encode(_)
\* Engine::encode_string: 3 bytes -> 4 symbols, '=' padding on the last group
base64_encode(bytes) ==
  LET n == Len(bytes) IN
  IF n = 0 THEN << >>
  ELSE IF n = 1 THEN
    << b64_symbol(bytes[1] \div 4), b64_symbol((bytes[1] % 4) * 16),
       Ascii.eq, Ascii.eq >>
  ELSE IF n = 2 THEN
    << b64_symbol(bytes[1] \div 4),
       b64_symbol((bytes[1] % 4) * 16 + bytes[2] \div 16),
       b64_symbol((bytes[2] % 16) * 4), Ascii.eq >>
  ELSE
    << b64_symbol(bytes[1] \div 4),
       b64_symbol((bytes[1] % 4) * 16 + bytes[2] \div 16),
       b64_symbol((bytes[2] % 16) * 4 + bytes[3] \div 64),
       b64_symbol(bytes[3] % 64) >>
    \o base64_encode(SubSeq(bytes, 4, n))

\* number of '=' bytes at the end of the text
b64_padding(text) ==
  LET n == Len(text) IN
  IF n >= 1 /\ text[n] = Ascii.eq
  THEN (IF n >= 2 /\ text[n - 1] = Ascii.eq
        THEN (IF n >= 3 /\ text[n - 2] = Ascii.eq THEN 3 ELSE 2)
        ELSE 1)
  ELSE 0

\* strict decoding: alphabet symbols only, canonical padding, a whole number
\* of quanta, no non-zero trailing bits
b64_valid(text) ==
  LET n == Len(text)
      pad == b64_padding(text)
      m == n - pad
  IN /\ n % 4 = 0
     /\ pad <= 2
     /\ \A i \in 1..m : b64_value(text[i]) >= 0
     /\ (pad = 2 => b64_value(text[m]) % 16 = 0)
     /\ (pad = 1 => b64_value(text[m]) % 4 = 0)

RECURSIVE b64_bytes(_)
\* the bytes of a valid text
b64_bytes(text) ==
  LET n == Len(text) IN
  IF n = 0 THEN << >>
  ELSE
    LET a == b64_value(text[1])
        b == b64_value(text[2])
        c == b64_value(text[3])
        d == b64_value(text[4])
        b1 == a * 4 + b \div 16
        b2 == (b % 16) * 16 + c \div 4
        b3 == (c % 4) * 64 + d
    IN IF text[3] = Ascii.eq THEN << b1 >>
       ELSE IF text[4] = Ascii.eq THEN << b1, b2 >>
       ELSE << b1, b2, b3 >> \o b64_bytes(SubSeq(text, 5, n))

\* Engine::decode: Ok(bytes) or Err(DecodeError)
base64_decode(text) ==
  IF b64_valid(text) THEN [ok |-> TRUE, bytes |-> b64_bytes(text)]
  ELSE [ok |-> FALSE, bytes |-> << >>]

(* ------------------------------------------------------------------ *)
(* zstd crate: encode_all / decode_all over the frame format           *)
(* (magic, frame header, raw and RLE blocks)                           *)
(* ------------------------------------------------------------------ *)
\* frame magic number 0xFD2FB528, little endian
zstd_magic == << 40, 181, 47, 253 >>

\* frame header of a streamed frame: descriptor 0x00, window descriptor 0x68
\* (the header of the fixture in tests::decode_hello_world_zstd)
zstd_frame_header == << 0, 104 >>

\* 3-byte little-endian block header: bit 0 last block, bits 1-2 block type,
\* bits 3.. block size
zstd_block_header(last, type, size) ==
  LET v == last + 2 * type + 8 * size IN
  << v % 256, (v \div 256) % 256, (v \div 65536) % 256 >>

\* every byte of the data equals the first one
zstd_is_rle(data) ==
  /\ Len(data) >= 2
  /\ \A i \in 1..Len(data) : data[i] = data[1]

\* encode_all(data, 19): one frame with a single last block, an RLE block
\* when the data is a run of one byte and a raw block otherwise
zstd_encode_all(data) ==
  zstd_magic \o zstd_frame_header \o
  (IF zstd_is_rle(data)
   THEN zstd_block_header(1, 1, Len(data)) \o << data[1] >>
   ELSE zstd_block_header(1, 0, Len(data)) \o data)

RECURSIVE zstd_decode_blocks(_, _)
\* the blocks of one frame, up to and including the last block;
\* rest is what follows the frame
zstd_decode_blocks(data, acc) ==
  IF Len(data) < 3 THEN [ok |-> FALSE, bytes |-> << >>, rest |-> << >>, outside |-> FALSE]
  ELSE
    LET v == data[1] + 256 * data[2] + 65536 * data[3]
        last == v % 2
        type == (v \div 2) % 4
        size == v \div 8
        body == SubSeq(data, 4, Len(data))
        used == IF type = 1 THEN 1 ELSE size
        content == IF type = 1 THEN [i \in 1..size |-> body[1]]
                   ELSE SubSeq(body, 1, size)
        after == SubSeq(body, used + 1, Len(body))
    IN IF type = 3 THEN [ok |-> FALSE, bytes |-> << >>, rest |-> << >>, outside |-> FALSE]
       ELSE IF type = 2 THEN [ok |-> FALSE, bytes |-> << >>, rest |-> << >>, outside |-> TRUE]
       ELSE IF Len(body) < used THEN [ok |-> FALSE, bytes |-> << >>, rest |-> << >>, outside |-> FALSE]
       ELSE IF last = 1 THEN [ok |-> TRUE, bytes |-> acc \o content, rest |-> after, outside |-> FALSE]
       ELSE zstd_decode_blocks(after, acc \o content)

\* one frame: magic, frame header, blocks
zstd_decode_frame(data) ==
  IF Len(data) < 6 \/ SubSeq(data, 1, 4) # zstd_magic
  THEN [ok |-> FALSE, bytes |-> << >>, rest |-> << >>, outside |-> FALSE]
  ELSE IF SubSeq(data, 5, 6) # zstd_frame_header
  THEN [ok |-> FALSE, bytes |-> << >>, rest |-> << >>, outside |-> TRUE]
  ELSE zstd_decode_blocks(SubSeq(data, 7, Len(data)), << >>)

RECURSIVE zstd_decode_frames(_, _)
\* one or more complete frames, concatenated
zstd_decode_frames(data, acc) ==
  LET f == zstd_decode_frame(data) IN
  IF ~f.ok THEN [ok |-> FALSE, bytes |-> << >>, outside |-> f.outside]
  ELSE IF f.rest = << >> THEN [ok |-> TRUE, bytes |-> acc \o f.bytes, outside |-> FALSE]
  ELSE zstd_decode_frames(f.rest, acc \o f.bytes)

\* decode_all(data): Ok(bytes) or Err(io::Error); outside marks a frame
\* feature (compressed block, other frame header) this model leaves out
zstd_decode_all(data) == zstd_decode_frames(data, << >>)

(* ------------------------------------------------------------------ *)
(* serde_json: Value, Value::to_string, from_slice                     *)
(* A Value is a record tagged by t:                                    *)
(*   null | bool b | num hi lo | str s | arr a | obj m                 *)
(* num is the unsigned integer hi * 10^9 + lo (below 10^18); m is the  *)
(* key-sorted sequence of <<key, value>> pairs of the BTreeMap.        *)
(* ------------------------------------------------------------------ *)
JNull == [t |-> "null"]
JBool(b) == [t |-> "bool", b |-> b]
JNum(hi, lo) == [t |-> "num", hi |-> hi, lo |-> lo]
JStr(s) == [t |-> "str", s |-> s]
JArr(a) == [t |-> "arr", a |-> a]
JObj(m) == [t |-> "obj", m |-> m]

\* 10^9, the weight of the high limb of a number
Limb == 1000000000

RECURSIVE bytes_less(_, _)
\* byte-wise lexicographic order of two strings (Ord for String)
bytes_less(x, y) ==
  IF Len(y) = 0 THEN FALSE
  ELSE IF Len(x) = 0 THEN TRUE
  ELSE IF x[1] # y[1] THEN x[1] < y[1]
  ELSE bytes_less(Tail(x), Tail(y))

\* Map::insert: replaces the value of an existing key, keeps the keys sorted
map_insert(m, k, v) ==
  IF \E i \in 1..Len(m) : m[i][1] = k
  THEN [i \in 1..Len(m) |-> IF m[i][1] = k THEN << k, v >> ELSE m[i]]
  ELSE LET n == Cardinality({i \in 1..Len(m) : bytes_less(m[i][1], k)})
       IN SubSeq(m, 1, n) \o << << k, v >> >> \o SubSeq(m, n + 1, Len(m))

RECURSIVE fmt_digits(_)
\* itoa: decimal digits of a natural number, no leading zero
fmt_digits(n) ==
  IF n < 10 THEN << Ascii.d0 + n >>
  ELSE fmt_digits(n \div 10) \o << Ascii.d0 + (n % 10) >>

\* decimal digits of hi * 10^9 + lo
fmt_number(hi, lo) ==
  IF hi = 0 THEN fmt_digits(lo)
  ELSE LET d == fmt_digits(lo)
       IN fmt_digits(hi) \o [i \in 1..(9 - Len(d)) |-> Ascii.d0] \o d

RECURSIVE fmt_escaped(_)
\* format_escaped_str_contents: the escapes of the bytes of a string
fmt_escaped(s) ==
  IF Len(s) = 0 THEN << >>
  ELSE (IF s[1] = Ascii.quote THEN << Ascii.backslash, Ascii.quote >>
        ELSE IF s[1] = Ascii.backslash THEN << Ascii.backslash, Ascii.backslash >>
        ELSE IF s[1] = Ascii.lf10 THEN << Ascii.backslash, Ascii.ln >>
        ELSE IF s[1] = Ascii.tab THEN << Ascii.backslash, Ascii.lt >>
        ELSE IF s[1] = Ascii.cr THEN << Ascii.backslash, Ascii.lr >>
        ELSE << s[1] >>)
       \o fmt_escaped(Tail(s))

fmt_string(s) == << Ascii.quote >> \o fmt_escaped(s) \o << Ascii.quote >>

RECURSIVE to_string(_)
RECURSIVE fmt_elems(_, _)
RECURSIVE fmt_members(_, _)
\* the elements of an array from index i on, comma separated
fmt_elems(a, i) ==
  IF i > Len(a) THEN << >>
  ELSE (IF i > 1 THEN << Ascii.comma >> ELSE << >>)
       \o to_string(a[i]) \o fmt_elems(a, i + 1)

\* the members of an object from index i on, comma separated
fmt_members(m, i) ==
  IF i > Len(m) THEN << >>
  ELSE (IF i > 1 THEN << Ascii.comma >> ELSE << >>)
       \o fmt_string(m[i][1]) \o << Ascii.colon >> \o to_string(m[i][2])
       \o fmt_members(m, i + 1)

\* Value::to_string: compact JSON text
to_string(v) ==
  IF v.t = "null" THEN << Ascii.ln, Ascii.lu, Ascii.ll, Ascii.ll >>
  ELSE IF v.t = "bool" THEN
    (IF v.b THEN << Ascii.lt, Ascii.lr, Ascii.lu, Ascii.le >>
     ELSE << Ascii.lf, Ascii.la, Ascii.ll, Ascii.ls, Ascii.le >>)
  ELSE IF v.t = "num" THEN fmt_number(v.hi, v.lo)
  ELSE IF v.t = "str" THEN fmt_string(v.s)
  ELSE IF v.t = "arr" THEN
    << Ascii.lbracket >> \o fmt_elems(v.a, 1) \o << Ascii.rbracket >>
  ELSE << Ascii.lbrace >> \o fmt_members(v.m, 1) \o << Ascii.rbrace >>

\* result of a parsing step: st is "ok", "err" (a serde_json::Error) or
\* "outside" (JSON this model leaves out: floats, negative numbers, numbers
\* of more than 18 digits, \b \f \u escapes, non-ASCII text); pos is the
\* index of the first byte not consumed
POk(v, pos) == [st |-> "ok", val |-> v, pos |-> pos]
PErr == [st |-> "err", val |-> JNull, pos |-> 0]
POutside == [st |-> "outside", val |-> JNull, pos |-> 0]

is_ws(c) == c \in {Ascii.space, Ascii.tab, Ascii.lf10, Ascii.cr}
is_digit(c) == c >= Ascii.d0 /\ c <= Ascii.d9

RECURSIVE skip_ws(_, _)
\* parse_whitespace: index of the first non-whitespace byte from i on
skip_ws(s, i) ==
  IF i <= Len(s) /\ is_ws(s[i]) THEN skip_ws(s, i + 1) ELSE i

\* parse_ident: the literal lit at index i
parse_ident(s, i, lit, v) ==
  IF i + Len(lit) - 1 <= Len(s) /\ SubSeq(s, i, i + Len(lit) - 1) = lit
  THEN POk(v, i + Len(lit))
  ELSE PErr

RECURSIVE parse_digits(_, _, _, _, _)
\* the digits of an integer from index i on, n of them read so far
parse_digits(s, i, hi, lo, n) ==
  IF i <= Len(s) /\ is_digit(s[i]) THEN
    (IF n >= 18 THEN POutside
     ELSE parse_digits(s, i + 1, hi * 10 + lo \div (Limb \div 10),
                       (lo % (Limb \div 10)) * 10 + (s[i] - Ascii.d0), n + 1))
  ELSE IF i <= Len(s) /\ s[i] \in {Ascii.dot, Ascii.le, Ascii.uE} THEN POutside
  ELSE POk(JNum(hi, lo), i)

\* parse_integer: a leading 0 stands alone
parse_number(s, i) ==
  IF s[i] = Ascii.d0 THEN
    (IF i + 1 <= Len(s) /\ is_digit(s[i + 1]) THEN PErr
     ELSE IF i + 1 <= Len(s) /\ s[i + 1] \in {Ascii.dot, Ascii.le, Ascii.uE} THEN POutside
     ELSE POk(JNum(0, 0), i + 1))
  ELSE parse_digits(s, i, 0, 0, 0)

RECURSIVE parse_str(_, _, _)
\* the contents of a string from index i on, up to the closing quote
parse_str(s, i, acc) ==
  IF i > Len(s) THEN PErr
  ELSE IF s[i] = Ascii.quote THEN POk(JStr(acc), i + 1)
  ELSE IF s[i] < 32 THEN PErr
  ELSE IF s[i] >= 128 THEN POutside
  ELSE IF s[i] = Ascii.backslash THEN
    (IF i + 1 > Len(s) THEN PErr
     ELSE IF s[i + 1] \in {Ascii.quote, Ascii.backslash, Ascii.slash}
       THEN parse_str(s, i + 2, Append(acc, s[i + 1]))
     ELSE IF s[i + 1] = Ascii.ln THEN parse_str(s, i + 2, Append(acc, Ascii.lf10))
     ELSE IF s[i + 1] = Ascii.lt THEN parse_str(s, i + 2, Append(acc, Ascii.tab))
     ELSE IF s[i + 1] = Ascii.lr THEN parse_str(s, i + 2, Append(acc, Ascii.cr))
     ELSE IF s[i + 1] \in {Ascii.lb, Ascii.lf, Ascii.lu} THEN POutside
     ELSE PErr)
  ELSE parse_str(s, i + 1, Append(acc, s[i]))

RECURSIVE parse_value(_, _)
RECURSIVE parse_elems(_, _, _)
RECURSIVE parse_members(_, _, _)
\* SeqAccess: the elements of an array, i is after '[' or after a ','
parse_elems(s, i, acc) ==
  LET j == skip_ws(s, i) IN
  IF j > Len(s) THEN PErr
  ELSE IF s[j] = Ascii.rbracket THEN
    (IF acc = << >> THEN POk(JArr(acc), j + 1) ELSE PErr)
  ELSE
    LET r == parse_value(s, j) IN
    IF r.st # "ok" THEN r
    ELSE LET k == skip_ws(s, r.pos) IN
         IF k > Len(s) THEN PErr
         ELSE IF s[k] = Ascii.comma THEN parse_elems(s, k + 1, Append(acc, r.val))
         ELSE IF s[k] = Ascii.rbracket THEN POk(JArr(Append(acc, r.val)), k + 1)
         ELSE PErr

\* MapAccess: the members of an object, i is after '{' or after a ','
parse_members(s, i, acc) ==
  LET j == skip_ws(s, i) IN
  IF j > Len(s) THEN PErr
  ELSE IF s[j] = Ascii.rbrace THEN
    (IF acc = << >> THEN POk(JObj(acc), j + 1) ELSE PErr)
  ELSE IF s[j] # Ascii.quote THEN PErr
  ELSE
    LET key == parse_str(s, j + 1, << >>) IN
    IF key.st # "ok" THEN key
    ELSE LET c == skip_ws(s, key.pos) IN
         IF c > Len(s) \/ s[c] # Ascii.colon THEN PErr
         ELSE LET r == parse_value(s, skip_ws(s, c + 1)) IN
              IF r.st # "ok" THEN r
              ELSE LET k == skip_ws(s, r.pos)
                       m == map_insert(acc, key.val.s, r.val)
                   IN IF k > Len(s) THEN PErr
                      ELSE IF s[k] = Ascii.comma THEN parse_members(s, k + 1, m)
                      ELSE IF s[k] = Ascii.rbrace THEN POk(JObj(m), k + 1)
                      ELSE PErr

\* Deserializer::deserialize_any: one value starting at index i
parse_value(s, i) ==
  IF i > Len(s) THEN PErr
  ELSE IF s[i] = Ascii.ln
    THEN parse_ident(s, i, << Ascii.ln, Ascii.lu, Ascii.ll, Ascii.ll >>, JNull)
  ELSE IF s[i] = Ascii.lt
    THEN parse_ident(s, i, << Ascii.lt, Ascii.lr, Ascii.lu, Ascii.le >>, JBool(TRUE))
  ELSE IF s[i] = Ascii.lf
    THEN parse_ident(s, i, << Ascii.lf, Ascii.la, Ascii.ll, Ascii.ls, Ascii.le >>, JBool(FALSE))
  ELSE IF s[i] = Ascii.quote THEN parse_str(s, i + 1, << >>)
  ELSE IF s[i] = Ascii.lbracket THEN parse_elems(s, i + 1, << >>)
  ELSE IF s[i] = Ascii.lbrace THEN parse_members(s, i + 1, << >>)
  ELSE IF is_digit(s[i]) THEN parse_number(s, i)
  ELSE IF s[i] = Ascii.minus THEN POutside
  ELSE PErr

\* serde_json::from_slice: one value, whitespace around it, nothing after
from_slice(s) ==
  LET r == parse_value(s, skip_ws(s, 1)) IN
  IF r.st # "ok" THEN r
  ELSE IF skip_ws(s, r.pos) <= Len(s) THEN PErr
  ELSE r

(* ------------------------------------------------------------------ *)
(* src/lib.rs                                                          *)
(* ------------------------------------------------------------------ *)
\* the closure of decode's position(): the byte is outside '+'..'z'
out_of_range(b) == b < Ascii.plus \/ b > Ascii.lz

\* variant of position: rposition, the index of the last out-of-range byte
position_last(data) ==
  IF \E i \in 1..Len(data) : out_of_range(data[i])
  THEN CHOOSE i \in 1..Len(data) :
         /\ out_of_range(data[i])
         /\ \A j \in (i + 1)..Len(data) : ~out_of_range(data[j])
  ELSE 0

\* iter().position(..): index of the first out-of-range byte, 0 for None
position(data) ==
  IF \E i \in 1..Len(data) : out_of_range(data[i])
  THEN CHOOSE i \in 1..Len(data) :
         /\ out_of_range(data[i])
         /\ \A j \in 1..(i - 1) : ~out_of_range(data[j])
  ELSE 0

\* variant of trim: the slice ..=end keeps the out-of-range byte
trim_inclusive(data) ==
  LET end == position(data) IN
  IF end # 0 THEN SubSeq(data, 1, end) ELSE data

\* if let Some(end) = .. { encoded_data = &encoded_data[..end] }
trim(data) ==
  LET end == position(data) IN
  IF end # 0 THEN SubSeq(data, 1, end - 1) ELSE data

\* variant of the closure: b also replaces a of the same length
shorter_or_equal(a, b) == IF Len(a[2]) >= Len(b[2]) THEN b ELSE a

\* the closure of reduce: b replaces a only when a is strictly longer
shorter(a, b) == IF Len(a[2]) > Len(b[2]) THEN b ELSE a

RECURSIVE reduce(_, _, _)
\* Iterator::reduce from index i on, acc is the value so far
reduce(options, i, acc) ==
  IF i > Len(options) THEN acc
  ELSE reduce(options, i + 1, shorter(acc, options[i]))

\* pick_shortest: options is a non-empty sequence of <<tag, bytes>>
pick_shortest(options) == reduce(options, 2, options[1])

\* variant of the candidates: the two tags exchanged
candidates_swapped(json_string) ==
  << << Ascii.d2, zstd_encode_all(json_string) >>,
     << Ascii.d1, json_string >> >>

\* variant of the candidates: the compressed candidate carries tag '0'
candidates_legacy(json_string) ==
  << << Ascii.d0, zstd_encode_all(json_string) >>,
     << Ascii.d2, json_string >> >>

\* the candidates of encode, in the order of the array literal
candidates(json_string) ==
  << << Ascii.d1, zstd_encode_all(json_string) >>,
     << Ascii.d2, json_string >> >>

NoPick == << 0, << >> >>

\* variant of encode: a failed compressor is skipped, the identity candidate
\* is emitted
encode_fallback(value, zstd_fails) ==
  LET json_string == to_string(value)
      picked == IF zstd_fails THEN << Ascii.d2, json_string >>
                ELSE pick_shortest(candidates(json_string))
  IN [ok |-> TRUE,
      out |-> << picked[1] >> \o base64_encode(picked[2]),
      picked |-> picked]

\* variant of encode: the prefix is always that of the first candidate
encode_first_prefix(value, zstd_fails) ==
  LET json_string == to_string(value)
      picked == pick_shortest(candidates(json_string))
  IN IF zstd_fails
     THEN [ok |-> FALSE, out |-> << >>, picked |-> NoPick]
     ELSE [ok |-> TRUE,
           out |-> << Ascii.d1 >> \o base64_encode(picked[2]),
           picked |-> picked]

\* encode: zstd_fails is the outcome of zstd::encode_all for this call
encode(value, zstd_fails) ==
  LET json_string == to_string(value)
      picked == pick_shortest(candidates(json_string))
  IN IF zstd_fails
     THEN [ok |-> FALSE, out |-> << >>, picked |-> NoPick]
     ELSE [ok |-> TRUE,
           out |-> << picked[1] >> \o base64_encode(picked[2]),
           picked |-> picked]

DErr(kind, tag, handed) ==
  [kind |-> kind, val |-> JNull, tag |-> tag, handed |-> handed]

\* the match on the tag byte and the JSON parse that follows it
transform(transport, compressed_data, handed) ==
  LET z == zstd_decode_all(compressed_data)
      json_string == IF transport = Ascii.d1 THEN z.bytes ELSE compressed_data
      j == from_slice(json_string)
  IN IF transport = Ascii.d1 /\ ~z.ok
       THEN DErr(IF z.outside THEN "OutsideModel" ELSE "TransformFailure", 0, handed)
     ELSE IF transport \notin {Ascii.d1, Ascii.d2}
       THEN DErr("UnsupportedFormat", transport, handed)
     ELSE IF j.st = "outside" THEN DErr("OutsideModel", 0, handed)
     ELSE IF j.st = "err" THEN DErr("MalformedJson", 0, handed)
     ELSE [kind |-> "Ok", val |-> j.val, tag |-> 0, handed |-> handed]

\* variant of decode: the tag is matched before the payload is base64-decoded
decode_tag_first(src) ==
  IF Len(src) = 0 THEN DErr("EmptyInput", 0, << >>)
  ELSE
    LET transport == src[1]
        encoded_data == trim(Tail(src))
        compressed_data == base64_decode(encoded_data)
    IN IF transport \notin {Ascii.d1, Ascii.d2}
         THEN DErr("UnsupportedFormat", transport, encoded_data)
       ELSE IF ~compressed_data.ok THEN DErr("InvalidEncoding", 0, encoded_data)
       ELSE transform(transport, compressed_data.bytes, encoded_data)

\* variant of decode: an input without payload bytes counts as empty
decode_empty_payload(src) ==
  IF Len(src) <= 1 THEN DErr("EmptyInput", 0, << >>)
  ELSE
    LET transport == src[1]
        encoded_data == trim(Tail(src))
        compressed_data == base64_decode(encoded_data)
    IN IF ~compressed_data.ok THEN DErr("InvalidEncoding", 0, encoded_data)
       ELSE transform(transport, compressed_data.bytes, encoded_data)

\* decode: kind is "Ok" or the error; handed is what base64 was given
decode(src) ==
  IF Len(src) = 0 THEN DErr("EmptyInput", 0, << >>)
  ELSE
    LET transport == src[1]
        encoded_data == trim(Tail(src))
        compressed_data == base64_decode(encoded_data)
    IN IF ~compressed_data.ok THEN DErr("InvalidEncoding", 0, encoded_data)
       ELSE transform(transport, compressed_data.bytes, encoded_data)

(* ------------------------------------------------------------------ *)
(* Inputs of the model                                                 *)
(* ------------------------------------------------------------------ *)
RECURSIVE repunit(_)
\* the number written with k digits 1, k in 0..9
repunit(k) == IF k = 0 THEN 0 ELSE repunit(k - 1) * 10 + 1

\* the number written with k digits 1, as a Value
Ones(k) == IF k <= 9 THEN JNum(0, repunit(k)) ELSE JNum(repunit(k - 9), repunit(9))

Hello == << 104, Ascii.le, Ascii.ll, Ascii.ll, 111 >>
World == << 119, 111, Ascii.lr, Ascii.ll, 100 >>

Scalars ==
  { JNull, JBool(TRUE), JBool(FALSE),
    JNum(0, 0), JNum(0, 7), JNum(0, 10), JNum(1, 0), JNum(1, 5),
    JStr(<< >>), JStr(<< Ascii.la >>), JStr(<< Ascii.quote >>),
    JStr(<< Ascii.backslash, Ascii.la >>), JStr(<< Ascii.la, Ascii.lf10, Ascii.space >>) }
  \cup { Ones(k) : k \in 1..MaxOnes }

\* the JSON values given to encode
Values ==
  Scalars
  \cup { JArr(<< >>), JArr(<< JNull >>), JArr(<< JNum(0, 1), JStr(<< Ascii.la >>) >>),
         JArr(<< JArr(<< >>), JObj(<< >>) >>),
         JObj(<< >>),
         JObj(<< << << Ascii.la >>, JNum(0, 1) >> >>),
         JObj(<< << Hello, JStr(World) >> >>),
         JObj(<< << << Ascii.la >>, JNull >>, << << Ascii.lb >>, JArr(<< JBool(TRUE) >>) >> >>),
         JObj(<< << << Ascii.lb >>, JObj(<< << << Ascii.la >>, JBool(FALSE) >> >>) >> >>) }

\* tag bytes of the hand-made inputs: '0' '1' '2' '3' and a space
TagBytes == { Ascii.d0, Ascii.d1, Ascii.d2, Ascii.d3, Ascii.space }

\* payload bytes of the hand-made inputs: alphabet symbols, padding, an
\* in-range byte outside the alphabet, an out-of-range byte
PayloadBytes == { Ascii.uM, Ascii.uQ, Ascii.eq, Ascii.comma, Ascii.space }

\* bytes appended to an encode output
SuffixBytes == { Ascii.amp, Ascii.lbrace, Ascii.comma, Ascii.uA, Ascii.eq }

SeqsUpTo(S, n) == UNION { [1..k -> S] : k \in 0..n }

\* tests::decode_hello_world_zstd: the payload KLUv/QBoiQAAeyJoZWxsbyI6IndvcmxkIn0=
Fixture == base64_encode(zstd_magic \o zstd_frame_header
                         \o zstd_block_header(1, 0, 17)
                         \o to_string(JObj(<< << Hello, JStr(World) >> >>)))

\* the byte sequences given to decode directly
Inputs ==
  { << >> }
  \cup { << t >> \o p : t \in TagBytes, p \in SeqsUpTo(PayloadBytes, MaxPayloadLen) }
  \cup { << t >> \o Fixture \o g : t \in TagBytes,
           g \in { << >>, << Ascii.amp, Ascii.d1, Ascii.d3, Ascii.d1, Ascii.d2 >> } }

NoEncode == [ok |-> FALSE, out |-> << >>, picked |-> NoPick]
NoDecode == DErr("None", 0, << >>)

(* ------------------------------------------------------------------ *)
(* State                                                               *)
(* ------------------------------------------------------------------ *)
VARIABLES
  pc,          \* "value": encode not called yet; "encoded"; "failed": encode
               \* returned Err; "input": hand-made decode input; "decoded"
  value,       \* the argument of encode
  zstd_fails,  \* whether zstd::encode_all returns Err in this run
  enc,         \* the result of encode
  suffix,      \* the bytes appended to the encode output
  src,         \* the argument of decode
  res          \* the result of decode

vars == << pc, value, zstd_fails, enc, suffix, src, res >>

Init ==
  /\ enc = NoEncode
  /\ suffix = << >>
  /\ res = NoDecode
  /\ \/ /\ pc = "value"
        /\ value \in Values
        /\ zstd_fails \in BOOLEAN
        /\ src = << >>
     \/ /\ pc = "input"
        /\ value = JNull
        /\ zstd_fails = FALSE
        /\ src \in Inputs

\* a call of encode(value)
Encode ==
  /\ pc = "value"
  /\ enc' = encode(value, zstd_fails)
  /\ pc' = IF enc'.ok THEN "encoded" ELSE "failed"
  /\ src' = enc'.out
  /\ UNCHANGED << value, zstd_fails, suffix, res >>

\* the caller pastes bytes after the transport string
AppendBytes ==
  /\ pc = "encoded"
  /\ suffix = << >>
  /\ \E s \in SeqsUpTo(SuffixBytes, MaxSuffixLen) \ { << >> } :
       /\ suffix' = s
       /\ src' = src \o s
  /\ UNCHANGED << pc, value, zstd_fails, enc, res >>

\* the caller replaces the tag byte of the transport string
Retag ==
  /\ pc = "encoded"
  /\ src[1] = enc.out[1]
  /\ \E t \in TagBytes \ { src[1] } : src' = << t >> \o Tail(src)
  /\ UNCHANGED << pc, value, zstd_fails, enc, suffix, res >>

\* a call of decode(src)
Decode ==
  /\ pc \in {"encoded", "input"}
  /\ res' = decode(src)
  /\ pc' = "decoded"
  /\ UNCHANGED << value, zstd_fails, enc, suffix, src >>

Next == Encode \/ AppendBytes \/ Retag \/ Decode

Spec == Init /\ [][Next]_vars

\* no run leaves the fragment of zstd and JSON that the model covers
InsideModel == res.kind # "OutsideModel"

(* ------------------------------------------------------------------ *)
(* Properties                                                          *)
(* ------------------------------------------------------------------ *)
\* the canonical JSON bytes and the compressed bytes of the encoded value
JsonBytes == to_string(value)
ZstdBytes == zstd_encode_all(to_string(value))

\* encode has returned Ok for value
Encoded == pc \in {"encoded", "decoded"} /\ enc.ok

RECURSIVE InRangePrefix(_)
\* the longest prefix of data whose bytes all lie within '+'..'z'
InRangePrefix(data) ==
  IF Len(data) = 0 \/ data[1] < Ascii.plus \/ data[1] > Ascii.lz THEN << >>
  ELSE << data[1] >> \o InRangePrefix(Tail(data))

\* the text has a byte that is neither an alphabet symbol nor '=', or a '='
\* before its last two positions
HasBadByte(text) ==
  \E i \in 1..Len(text) :
    \/ b64_value(text[i]) < 0 /\ text[i] # Ascii.eq
    \/ text[i] = Ascii.eq /\ i <= Len(text) - 2

\* the tags of the registry of the specification: '0', '1', '2'
Registry == { Ascii.d0, Ascii.d1, Ascii.d2 }

C3_TieBreak ==
  Encoded =>
    /\ (Len(ZstdBytes) = Len(JsonBytes) => enc.picked = << Ascii.d1, ZstdBytes >>)
    /\ (enc.picked[1] = Ascii.d2 => Len(JsonBytes) < Len(ZstdBytes))
    /\ (Len(JsonBytes) < Len(ZstdBytes) => enc.picked = << Ascii.d2, JsonBytes >>)

\* C3 witness: two candidates of the same length, the first one selected.
C3_Witness ==
  /\ Encoded
  /\ Len(ZstdBytes) = Len(JsonBytes)
  /\ enc.picked[1] = Ascii.d1

\* C4 as stated: legacy compatibility. An input with tag '0' gives the
\* outcome (value or failure) of the same payload with tag '1'.
C4_Legacy ==
  (pc = "decoded" /\ Len(src) > 0 /\ src[1] = Ascii.d0)
    => LET r == decode(<< Ascii.d1 >> \o Tail(src))
       IN res.kind = r.kind /\ res.val = r.val

\* C5 as stated: a non-empty input whose first byte is not a registered tag
\* fails with UnsupportedFormat carrying that byte, whatever follows.
C5_Original ==
  (pc = "decoded" /\ Len(src) > 0 /\ src[1] \notin Registry)
    => (res.kind = "UnsupportedFormat" /\ res.tag = src[1])

\* C5 amended: a non-empty input whose first byte is not a registered tag
\* fails with UnsupportedFormat carrying that byte when the noise-trimmed
\* payload is valid base64, and with InvalidEncoding when it is not.
C5_UnknownTag ==
  (pc = "decoded" /\ Len(src) > 0 /\ src[1] \notin Registry)
    => IF b64_valid(InRangePrefix(Tail(src)))
       THEN res.kind = "UnsupportedFormat" /\ res.tag = src[1]
       ELSE res.kind = "InvalidEncoding"

\* C5 witness: tag '3' before a non-empty valid payload, UnsupportedFormat.
C5_Witness ==
  /\ pc = "decoded" /\ Len(src) > 1 /\ src[1] = Ascii.d3
  /\ b64_valid(InRangePrefix(Tail(src))) /\ InRangePrefix(Tail(src)) # << >>
  /\ res.kind = "UnsupportedFormat" /\ res.tag = Ascii.d3

\* C6: noise tolerance. decode of an encode output followed by bytes whose
\* first one lies outside '+'..'z' succeeds and returns the encoded value.
C6_NoiseTolerance ==
  (Encoded /\ pc = "decoded" /\ suffix # << >>
     /\ (suffix[1] < Ascii.plus \/ suffix[1] > Ascii.lz)
     /\ src = enc.out \o suffix)
    => (res.kind = "Ok" /\ res.val = value)

\* C6 witness: the appended bytes are an out-of-range byte followed by an
\* alphabet symbol, and decode returned the value.
C6_Witness ==
  /\ Encoded /\ pc = "decoded" /\ src = enc.out \o suffix
  /\ suffix = << Ascii.amp, Ascii.uA >>
  /\ res.kind = "Ok" /\ res.val = value

\* C7: empty input. decode of a zero-length input fails with EmptyInput
\* without handing anything to base64, and EmptyInput is the outcome of no
\* other input.
C7_EmptyInput ==
  pc = "decoded" =>
    /\ (Len(src) = 0 => res.kind = "EmptyInput" /\ res.handed = << >>)
    /\ (res.kind = "EmptyInput" => Len(src) = 0)

\* C7 witness: the zero-length input was decoded.
C7_Witness == pc = "decoded" /\ Len(src) = 0 /\ res.kind = "EmptyInput"

\* C8: encoder output. A successful encode returns '1' or '2' followed by
\* 4 * ceil(n / 3) bytes, n the length of the shorter candidate, all of
\* them alphabet symbols or '=', none outside '+'..'z', so that the noise
\* trim keeps the whole payload.
C8_EncoderOutput ==
  Encoded =>
    LET n == IF Len(ZstdBytes) < Len(JsonBytes) THEN Len(ZstdBytes) ELSE Len(JsonBytes)
        payload == Tail(enc.out)
    IN /\ enc.out[1] \in { Ascii.d1, Ascii.d2 }
       /\ Len(payload) = 4 * ((n + 2) \div 3)
       /\ \A i \in 1..Len(payload) :
            /\ b64_value(payload[i]) >= 0 \/ payload[i] = Ascii.eq
            /\ payload[i] >= Ascii.plus /\ payload[i] <= Ascii.lz
       /\ InRangePrefix(payload) = payload
       /\ (pc = "decoded" /\ src = enc.out => res.handed = payload)

\* C8 witness: an output with tag '1' and padding was decoded unmodified.
C8_Witness ==
  /\ Encoded /\ pc = "decoded" /\ src = enc.out
  /\ enc.out[1] = Ascii.d1
  /\ enc.out[Len(enc.out)] = Ascii.eq

\* C9: compressor failure. When zstd fails, encode returns an error and no
\* transport string; the identity candidate is not emitted.
C9_AllOrNothing ==
  (zstd_fails /\ pc # "value")
    => (pc = "failed" /\ ~enc.ok /\ enc.out = << >> /\ src = << >>)

\* C9 witness: encode was called with a failing compressor.
C9_Witness == pc = "failed" /\ zstd_fails /\ ~enc.ok

\* C10: noise-trim boundary. base64 is handed the longest in-range prefix
\* of the payload region; the outcome is that of the tag followed by this
\* prefix alone; a byte of the prefix outside the alphabet, or a misplaced
\* '=', gives InvalidEncoding whatever the tag.
C10_TrimBoundary ==
  (pc = "decoded" /\ Len(src) > 0) =>
    LET kept == InRangePrefix(Tail(src)) IN
    /\ res.handed = kept
    /\ res = decode(<< src[1] >> \o kept)
    /\ (HasBadByte(kept) => res.kind = "InvalidEncoding")

\* C10 witness: an unregistered tag, a ',' kept before an out-of-range byte
\* that cuts the payload, InvalidEncoding.
C10_Witness ==
  /\ pc = "decoded" /\ Len(src) > 2
  /\ src[1] \notin Registry
  /\ \E i \in 2..Len(src) : src[i] = Ascii.comma /\ i < position(Tail(src)) + 1
  /\ Len(res.handed) < Len(src) - 1
  /\ res.kind = "InvalidEncoding"

====
